---- MODULE Spec2Model ----
(***************************************************************************)
(* LearnSphere core engine (src/src/core.ts): the mastery engine's state,  *)
(* its operations, the channel sequencer and the skill-state transition.   *)
(*                                                                         *)
(* JavaScript numbers are modelled as exact rationals <<n, d>> in lowest   *)
(* terms with d > 0; timestamps (milliseconds) are integers.               *)
(***************************************************************************)
EXTENDS Integers, Sequences, FiniteSets, TLC

VARIABLES
    universes,  \* EngineState.universes: universe id -> Universe
    learners,   \* EngineState.learners: learner id -> LearnerProfile
    last,       \* the last call made on the engine: its inputs and its outcome
    applied,    \* learner id -> number of events successfully applied so far
    tPrevious,  \* transition function alone: the state it was applied to
    tSignal,    \* transition function alone: the signal it was applied to
    tNext,      \* transition function alone: the state it returned
    tSteps,     \* transition function alone: number of signals applied so far
    cStart,     \* channel sequencer alone: the caller's first previousChannel
    cChannel,   \* channel sequencer alone: the channel returned last
    cSteps      \* channel sequencer alone: number of calls so far

vars == <<universes, learners, last, applied, tPrevious, tSignal, tNext, tSteps,
          cStart, cChannel, cSteps>>
engineVars == <<universes, learners, last, applied>>
transitionVars == <<tPrevious, tSignal, tNext, tSteps>>
sequencerVars == <<cStart, cChannel, cSteps>>

---------------------------------------------------------------------------
(* Bounds of the model *)

\* successful assessment events over all learners
MaxEvents == 2
\* signals applied in a row by the transition function alone
MaxSteps == 3
\* calls of the channel sequencer in a row, each on the channel returned before
MaxCalls == 17

---------------------------------------------------------------------------
(* Number arithmetic *)

Abs(x) == IF x < 0 THEN -x ELSE x

RECURSIVE Gcd(_, _)
Gcd(a, b) == IF b = 0 THEN a ELSE Gcd(b, a % b)

\* the number n/d in lowest terms
Num(n, d) ==
    IF n = 0 THEN <<0, 1>>
    ELSE LET g == Gcd(Abs(n), d) IN <<n \div g, d \div g>>

Zero == <<0, 1>>
One == <<1, 1>>
Half == <<1, 2>>

\* the number NaN (0/0): what arithmetic on a value that is not a number gives
NaN == <<0, 0>>

IsNaN(a) == a[1] = 0 /\ a[2] = 0

Add(a, b) ==
    IF IsNaN(a) \/ IsNaN(b) THEN NaN
    ELSE LET g == Gcd(a[2], b[2])
         IN  Num(a[1] * (b[2] \div g) + b[1] * (a[2] \div g), (a[2] \div g) * b[2])

Neg(a) == <<-a[1], a[2]>>

Sub(a, b) == Add(a, Neg(b))

Mul(a, b) ==
    IF IsNaN(a) \/ IsNaN(b) THEN NaN
    ELSE IF a[1] = 0 \/ b[1] = 0 THEN <<0, 1>>
    ELSE LET g1 == Gcd(Abs(a[1]), b[2])
             g2 == Gcd(Abs(b[1]), a[2])
         IN  <<(a[1] \div g1) * (b[1] \div g2), (a[2] \div g2) * (b[2] \div g1)>>

\* a <= b, by cross-multiplication (the denominators are positive); every
\* comparison with NaN is false
Le(a, b) == ~IsNaN(a) /\ ~IsNaN(b) /\ a[1] * b[2] <= b[1] * a[2]

Lt(a, b) == ~IsNaN(a) /\ ~IsNaN(b) /\ a[1] * b[2] < b[1] * a[2]

\* Math.min and Math.max return NaN when an argument is NaN
MathMin(a, b) == IF IsNaN(a) \/ IsNaN(b) THEN NaN ELSE IF Le(a, b) THEN a ELSE b

MathMax(a, b) == IF IsNaN(a) \/ IsNaN(b) THEN NaN ELSE IF Le(a, b) THEN b ELSE a

InUnit(a) == Le(Zero, a) /\ Le(a, One)

---------------------------------------------------------------------------
(* Data model *)

RVKA_ORDER == <<"reading", "visual", "kinesthetic", "auditory">>

Channels == {RVKA_ORDER[i] : i \in 1..Len(RVKA_ORDER)}

Modes == {"assessment", "sandbox"}

\* an absent optional value (previousChannel?, misconceptionTag?)
Undefined == "undefined"

clamp(n, min, max) == MathMax(min, MathMin(max, n))

clamp01(n) == clamp(n, Zero, One)

NoCounts == [t \in {} |-> 0]

emptySkillState(skillId) ==
    [skillId |-> skillId,
     stability |-> Zero,
     transfer |-> Zero,
     momentum |-> Zero,
     reasoningQuality |-> Zero,
     recencyWeight |-> Zero,
     fragility |-> One,
     misconceptionCounts |-> NoCounts,
     lastUpdatedAt |-> 0,
     masteryScore |-> Zero]

---------------------------------------------------------------------------
(* State transition function *)

DayMs == 1000 * 60 * 60 * 24

ElapsedDays(previous, signal) ==
    IF previous.lastUpdatedAt # 0
    THEN MathMax(Zero, Num(signal.observedAt - previous.lastUpdatedAt, DayMs))
    ELSE Zero

\* mutant: the decay is clamped to [0, 1], without the floor of 0.5
DecayNoFloor(previous, signal) ==
    clamp(Sub(One, Mul(ElapsedDays(previous, signal), <<3, 100>>)), Zero, One)

Decay(previous, signal) ==
    clamp(Sub(One, Mul(ElapsedDays(previous, signal), <<3, 100>>)), Half, One)

\* mutant: the constant pulse is missing, the previous weight only decays
RecencyWeightNoPulse(previous, decay) ==
    clamp01(Mul(Mul(<<7, 10>>, previous.recencyWeight), decay))

RecencyWeight(previous, decay) ==
    clamp01(Add(Mul(Mul(<<7, 10>>, previous.recencyWeight), decay), Mul(<<3, 10>>, One)))

Stability(previous, signal, decay) ==
    clamp01(Add(Mul(Mul(<<13, 20>>, previous.stability), decay),
                Mul(<<7, 20>>, signal.value)))

Transfer(previous, signal, decay) ==
    clamp01(Add(Mul(Mul(<<7, 10>>, previous.transfer), decay),
                Mul(<<3, 10>>, signal.transferEvidence)))

ReasoningQuality(previous, signal, decay) ==
    clamp01(Add(Mul(Mul(<<3, 5>>, previous.reasoningQuality), decay),
                Mul(<<2, 5>>, signal.reasoningQuality)))

Momentum(previous, signal, decay) ==
    LET momentumDelta == Sub(signal.value, previous.stability)
    IN  clamp01(Add(Mul(Mul(<<3, 4>>, previous.momentum), decay),
                    Mul(<<1, 4>>, Mul(Add(momentumDelta, One), Half))))

\* property names every object literal inherits from Object.prototype: for
\* these counts[name] is a function even when counts has no such entry
ObjectPrototypeNames ==
    {"constructor", "toString", "toLocaleString", "valueOf", "hasOwnProperty",
     "isPrototypeOf", "propertyIsEnumerable"}

\* (misconceptionCounts[tag] ?? 0) + 1. A stored number n gives n + 1 and an
\* absent entry 0 + 1. For an absent entry under an inherited name the value
\* read is the inherited function, which is not nullish, and function + 1 is
\* the string of the function's text followed by "1"; a stored string + 1 is the
\* string followed by one more "1". The model writes the string with k
\* characters "1" as the negative number -k; a stored number is positive.
NextCount(prior, tag) ==
    IF tag \in DOMAIN prior
    THEN (IF prior[tag] > 0 THEN prior[tag] + 1 ELSE prior[tag] - 1)
    ELSE (IF tag \in ObjectPrototypeNames THEN -1 ELSE 0 + 1)

MisconceptionCounts(previous, signal) ==
    LET prior == previous.misconceptionCounts
        tag == signal.misconceptionTag
    IN  IF tag \notin {Undefined, ""}
        THEN [t \in DOMAIN prior \cup {tag} |->
                 IF t = tag THEN NextCount(prior, tag) ELSE prior[t]]
        ELSE prior

\* count * 0.03: a string that is not the text of a number multiplies to NaN
CountTimes(count, factor) ==
    IF count < 0 THEN NaN ELSE Mul(<<count, 1>>, factor)

RECURSIVE PressureOver(_, _)
PressureOver(counts, tags) ==
    IF tags = {} THEN Zero
    ELSE LET tag == CHOOSE t \in tags : TRUE
         IN  Add(MathMin(<<1, 4>>, CountTimes(counts[tag], <<3, 100>>)),
                 PressureOver(counts, tags \ {tag}))

MisconceptionPressure(counts) == PressureOver(counts, DOMAIN counts)

Fragility(stability, transfer, reasoningQuality) ==
    clamp01(Sub(One, Add(Add(Mul(Half, stability), Mul(<<1, 5>>, transfer)),
                         Mul(<<3, 10>>, reasoningQuality))))

\* mutant: the misconception pressure is not added
PenalizedFragilityNoPressure(fragility, misconceptionPressure) ==
    clamp01(fragility)

PenalizedFragility(fragility, misconceptionPressure) ==
    clamp01(Add(fragility, Mul(misconceptionPressure, <<1, 5>>)))

MasteryScore(stability, transfer, momentum, reasoningQuality, recencyWeight, penalizedFragility) ==
    clamp01(Sub(Add(Add(Add(Add(Mul(<<7, 25>>, stability),
                                Mul(<<11, 50>>, transfer)),
                            Mul(<<9, 50>>, momentum)),
                        Mul(<<1, 5>>, reasoningQuality)),
                    Mul(<<3, 25>>, recencyWeight)),
                Mul(<<9, 50>>, penalizedFragility)))

transitionSkillState(previous, signal) ==
    LET decay == Decay(previous, signal)
        recencyWeight == RecencyWeight(previous, decay)
        stability == Stability(previous, signal, decay)
        transfer == Transfer(previous, signal, decay)
        reasoningQuality == ReasoningQuality(previous, signal, decay)
        momentum == Momentum(previous, signal, decay)
        misconceptionCounts == MisconceptionCounts(previous, signal)
        misconceptionPressure == MisconceptionPressure(misconceptionCounts)
        fragility == Fragility(stability, transfer, reasoningQuality)
        penalizedFragility == PenalizedFragility(fragility, misconceptionPressure)
        masteryScore == MasteryScore(stability, transfer, momentum,
                                     reasoningQuality, recencyWeight,
                                     penalizedFragility)
    IN  [skillId |-> previous.skillId,
         stability |-> stability,
         transfer |-> transfer,
         momentum |-> momentum,
         reasoningQuality |-> reasoningQuality,
         recencyWeight |-> recencyWeight,
         fragility |-> penalizedFragility,
         misconceptionCounts |-> misconceptionCounts,
         lastUpdatedAt |-> signal.observedAt,
         masteryScore |-> masteryScore]

---------------------------------------------------------------------------
(* Inputs *)

LearnerIds == {"l1", "l2"}

\* skill ids: any string is accepted; "constructor" is one that is also a name
\* inherited from Object.prototype
SkillIds == {"s1", "s2", "constructor"}

\* "u_missing" is never registered
UniverseIds == {"u1", "u_missing"}

\* the number 1/0: a value of type number that is not finite
Infinity == <<1, 0>>

\* a universe "u1" whose skill graph holds the skill "s1" only
UniverseOf(masteryThreshold) ==
    [id |-> "u1",
     label |-> "Universe 1",
     skillGraph |-> [nodes |-> <<[id |-> "s1", label |-> "Skill 1",
                                 universeId |-> "u1", baseDifficulty |-> Half]>>,
                     edges |-> <<>>,
                     arcs |-> <<>>],
     masteryThreshold |-> masteryThreshold]

\* a universe "u2" with an empty skill graph, to which no event refers
UniverseTwo ==
    [id |-> "u2",
     label |-> "Universe 2",
     skillGraph |-> [nodes |-> <<>>, edges |-> <<>>, arcs |-> <<>>],
     masteryThreshold |-> <<4, 5>>]

\* registerUniverse validates nothing: any number is taken as masteryThreshold
Universes == {UniverseOf(<<4, 5>>), UniverseOf(Infinity), UniverseTwo}

\* misconception tags: any string is accepted; "constructor" is one that is
\* also a name inherited from Object.prototype
Tags == {"t1", "t2", "constructor"}

\* what callers may pass as previousChannel: nothing, a channel, or another value
PreviousChannels == Channels \cup {Undefined, "olfactory"}

\* signal contents (without the channel) submitted to the engine: the in-range
\* signal of the spec's scenario, and an out-of-range one 20 days later
EngineSignals ==
    {[observedAt |-> 1000, value |-> <<9, 10>>, reasoningQuality |-> <<4, 5>>,
      transferEvidence |-> <<7, 10>>, misconceptionTag |-> Undefined],
     [observedAt |-> 1000 + 20 * DayMs, value |-> <<2, 1>>, reasoningQuality |-> <<-1, 1>>,
      transferEvidence |-> <<3, 2>>, misconceptionTag |-> "t1"]}

SignalEnvelope(channel, content) ==
    [channel |-> channel,
     observedAt |-> content.observedAt,
     value |-> content.value,
     reasoningQuality |-> content.reasoningQuality,
     transferEvidence |-> content.transferEvidence,
     misconceptionTag |-> content.misconceptionTag]

AssessmentEvents ==
    {[learnerId |-> l, universeId |-> u, skillId |-> s, expectedNextChannel |-> e,
      signal |-> SignalEnvelope(c, content)] :
        l \in LearnerIds, u \in UniverseIds, s \in SkillIds, e \in Channels,
        c \in Channels, content \in EngineSignals}

---------------------------------------------------------------------------
(* Engine: the operations as functions of the engine state *)

NoSkillStates == [s \in {} |-> 0]

\* mutant: the map is replaced by one holding the new universe alone
registerUniverseAlone(us, universe) ==
    [id \in {universe.id} |-> universe]

registerUniverse(us, universe) ==
    [id \in DOMAIN us \cup {universe.id} |->
        IF id = universe.id THEN universe ELSE us[id]]

\* mutant: the profile is (re)created whether or not the learner exists
ensureLearnerOverwrite(ls, learnerId, mode) ==
    [id \in DOMAIN ls \cup {learnerId} |->
        IF id = learnerId
        THEN [learnerId |-> learnerId,
              mode |-> IF mode = Undefined THEN "assessment" ELSE mode,
              skillStates |-> NoSkillStates,
              timeline |-> <<>>]
        ELSE ls[id]]

ensureLearner(ls, learnerId, mode) ==
    IF learnerId \notin DOMAIN ls
    THEN [id \in DOMAIN ls \cup {learnerId} |->
            IF id = learnerId
            THEN [learnerId |-> learnerId,
                  mode |-> IF mode = Undefined THEN "assessment" ELSE mode,
                  skillStates |-> NoSkillStates,
                  timeline |-> <<>>]
            ELSE ls[id]]
    ELSE ls

\* mutant: the profile is created anew before the mode is written
setModeFresh(ls, learnerId, mode) ==
    [ensureLearnerOverwrite(ls, learnerId, Undefined) EXCEPT ![learnerId].mode = mode]

setMode(ls, learnerId, mode) ==
    [ensureLearner(ls, learnerId, Undefined) EXCEPT ![learnerId].mode = mode]

\* 0-based index of x in seq, -1 when absent (Array.prototype.indexOf)
IndexOf(seq, x) ==
    IF \E i \in 1..Len(seq) : seq[i] = x
    THEN (CHOOSE i \in 1..Len(seq) : seq[i] = x /\ \A j \in 1..(i - 1) : seq[j] # x) - 1
    ELSE -1

\* mutant: no wrap-around after the last channel (RVKA_ORDER[4] is undefined)
selectNextChannelNoWrap(previousChannel) ==
    IF previousChannel = Undefined
    THEN RVKA_ORDER[1]
    ELSE LET index == IndexOf(RVKA_ORDER, previousChannel)
         IN  IF index < 0
             THEN RVKA_ORDER[1]
             ELSE IF index + 2 > Len(RVKA_ORDER)
             THEN Undefined
             ELSE RVKA_ORDER[index + 2]

selectNextChannel(previousChannel) ==
    IF previousChannel = Undefined
    THEN RVKA_ORDER[1]
    ELSE LET index == IndexOf(RVKA_ORDER, previousChannel)
         IN  IF index < 0 \/ index = Len(RVKA_ORDER) - 1
             THEN RVKA_ORDER[1]
             ELSE RVKA_ORDER[index + 2]

\* the engine state after getLearner; the profile it returns is the live
\* learners[learnerId] of that state
getLearner(ls, learnerId) == ensureLearner(ls, learnerId, Undefined)

\* mutant: the sandbox short-circuit is missing
IsSandboxNever(learner) == FALSE

IsSandbox(learner) == learner.mode = "sandbox"

\* mutant: the channel check is missing
ChannelMismatchUnchecked(event) == FALSE

ChannelMismatch(event) == event.signal.channel # event.expectedNextChannel

UniverseMissing(us, event) == event.universeId \notin DOMAIN us

\* what skillStates[skillId] gives for a skillId that is no own key but a name
\* inherited from Object.prototype: a function, which is not nullish and is read
\* as a SkillState; each field read from it is undefined (NaN in arithmetic,
\* falsy as lastUpdatedAt, nothing to spread as misconceptionCounts)
InheritedAsSkillState ==
    [skillId |-> Undefined,
     stability |-> NaN,
     transfer |-> NaN,
     momentum |-> NaN,
     reasoningQuality |-> NaN,
     recencyWeight |-> NaN,
     fragility |-> NaN,
     misconceptionCounts |-> NoCounts,
     lastUpdatedAt |-> 0,
     masteryScore |-> NaN]

PreviousSkillState(learner, event) ==
    IF event.skillId \in DOMAIN learner.skillStates
    THEN learner.skillStates[event.skillId]
    ELSE IF event.skillId \in ObjectPrototypeNames
    THEN InheritedAsSkillState
    ELSE emptySkillState(event.skillId)

\* mutant: the skill states are replaced by a map holding the new state alone
StoreSkillStateAlone(skillStates, event, next) ==
    [s \in {event.skillId} |-> next]

StoreSkillState(skillStates, event, next) ==
    [s \in DOMAIN skillStates \cup {event.skillId} |->
        IF s = event.skillId THEN next ELSE skillStates[s]]

\* mutant: the entry is put at the front of the timeline (unshift for push)
PushTimelineFront(timeline, event, next) ==
    <<[skillId |-> event.skillId,
       timestamp |-> event.signal.observedAt,
       masteryScore |-> next.masteryScore]>> \o timeline

PushTimeline(timeline, event, next) ==
    Append(timeline, [skillId |-> event.skillId,
                      timestamp |-> event.signal.observedAt,
                      masteryScore |-> next.masteryScore])

\* mutant: the universe is looked up before the channel is checked
applyAssessmentEventUniverseFirst(us, ls, event) ==
    LET got == getLearner(ls, event.learnerId)
        learner == got[event.learnerId]
    IN  IF IsSandbox(learner)
        THEN [learners |-> got, outcome |-> "sandbox"]
        ELSE IF UniverseMissing(us, event)
        THEN [learners |-> got, outcome |-> "UnregisteredUniverse"]
        ELSE IF ChannelMismatch(event)
        THEN [learners |-> got, outcome |-> "ChannelContractViolation"]
        ELSE LET previous == PreviousSkillState(learner, event)
                 next == transitionSkillState(previous, event.signal)
             IN  [learners |->
                     [got EXCEPT ![event.learnerId] =
                         [learner EXCEPT
                             !.skillStates = StoreSkillState(learner.skillStates, event, next),
                             !.timeline = PushTimeline(learner.timeline, event, next)]],
                  outcome |-> "applied"]

\* the learners after the call and how the call ended: "applied" (returned the
\* mutated profile), "sandbox" (returned the profile unchanged), or the error thrown
applyAssessmentEvent(us, ls, event) ==
    LET got == getLearner(ls, event.learnerId)
        learner == got[event.learnerId]
    IN  IF IsSandbox(learner)
        THEN [learners |-> got, outcome |-> "sandbox"]
        ELSE IF ChannelMismatch(event)
        THEN [learners |-> got, outcome |-> "ChannelContractViolation"]
        ELSE IF UniverseMissing(us, event)
        THEN [learners |-> got, outcome |-> "UnregisteredUniverse"]
        ELSE LET previous == PreviousSkillState(learner, event)
                 next == transitionSkillState(previous, event.signal)
             IN  [learners |->
                     [got EXCEPT ![event.learnerId] =
                         [learner EXCEPT
                             !.skillStates = StoreSkillState(learner.skillStates, event, next),
                             !.timeline = PushTimeline(learner.timeline, event, next)]],
                  outcome |-> "applied"]

\* the JSON value null
Null == <<>>

\* JSON.parse(JSON.stringify(n)) of a number: a finite number is written in full
\* and read back; NaN and the infinities are written as null
JsonNumber(n) == IF n[2] = 0 THEN Null ELSE n

\* a field whose value is undefined is not written
JsonSkillState(state) ==
    LET written ==
            [skillId |-> state.skillId,
             stability |-> JsonNumber(state.stability),
             transfer |-> JsonNumber(state.transfer),
             momentum |-> JsonNumber(state.momentum),
             reasoningQuality |-> JsonNumber(state.reasoningQuality),
             recencyWeight |-> JsonNumber(state.recencyWeight),
             fragility |-> JsonNumber(state.fragility),
             misconceptionCounts |-> [t \in DOMAIN state.misconceptionCounts |->
                                         state.misconceptionCounts[t]],
             lastUpdatedAt |-> state.lastUpdatedAt,
             masteryScore |-> JsonNumber(state.masteryScore)]
    IN  IF state.skillId = Undefined
        THEN [field \in DOMAIN written \ {"skillId"} |-> written[field]]
        ELSE written

JsonLearner(learner) ==
    [learnerId |-> learner.learnerId,
     mode |-> learner.mode,
     skillStates |-> [s \in DOMAIN learner.skillStates |->
                         JsonSkillState(learner.skillStates[s])],
     timeline |-> [i \in 1..Len(learner.timeline) |->
                      [skillId |-> learner.timeline[i].skillId,
                       timestamp |-> learner.timeline[i].timestamp,
                       masteryScore |-> JsonNumber(learner.timeline[i].masteryScore)]]]

JsonUniverse(universe) ==
    [id |-> universe.id,
     label |-> universe.label,
     skillGraph |->
        [nodes |-> [i \in 1..Len(universe.skillGraph.nodes) |->
                       [id |-> universe.skillGraph.nodes[i].id,
                        label |-> universe.skillGraph.nodes[i].label,
                        universeId |-> universe.skillGraph.nodes[i].universeId,
                        baseDifficulty |->
                            JsonNumber(universe.skillGraph.nodes[i].baseDifficulty)]],
         edges |-> [i \in 1..Len(universe.skillGraph.edges) |->
                       [from |-> universe.skillGraph.edges[i].from,
                        to |-> universe.skillGraph.edges[i].to,
                        dependencyWeight |->
                            JsonNumber(universe.skillGraph.edges[i].dependencyWeight)]],
         arcs |-> [i \in 1..Len(universe.skillGraph.arcs) |->
                      [skillId |-> universe.skillGraph.arcs[i].skillId,
                       level |-> JsonNumber(universe.skillGraph.arcs[i].level),
                       complexityWeight |->
                           JsonNumber(universe.skillGraph.arcs[i].complexityWeight)]]],
     masteryThreshold |-> JsonNumber(universe.masteryThreshold)]

\* JSON.parse(JSON.stringify(this.state)): a new value built from the text of the
\* state, sharing nothing with it
snapshot(us, ls) ==
    [universes |-> [id \in DOMAIN us |-> JsonUniverse(us[id])],
     learners |-> [id \in DOMAIN ls |-> JsonLearner(ls[id])]]

---------------------------------------------------------------------------
(* Engine: the calls *)

NoEvent == "none"

\* the record of a call: the operation, the inputs the checks read, the outcome
Call(op, learnerId, universeId, channelMatch, outcome, event, ret) ==
    [op |-> op, learnerId |-> learnerId, universeId |-> universeId,
     channelMatch |-> channelMatch, outcome |-> outcome, event |-> event,
     ret |-> ret]

TotalEvents == applied["l1"] + applied["l2"]

\* placeholder for "no signal applied yet"
NoSignal ==
    SignalEnvelope("reading",
                   [observedAt |-> 0, value |-> Zero, reasoningQuality |-> Zero,
                    transferEvidence |-> Zero, misconceptionTag |-> Undefined])

Init ==
    /\ universes = [id \in {} |-> 0]
    /\ learners = [id \in {} |-> 0]
    /\ last = Call("new", "-", "-", TRUE, "returned", NoEvent, "-")
    /\ applied = [l \in LearnerIds |-> 0]
    /\ tPrevious = emptySkillState("s1")
    /\ tSignal = NoSignal
    /\ tNext = emptySkillState("s1")
    /\ tSteps = 0
    /\ cStart = Undefined
    /\ cChannel = Undefined
    /\ cSteps = 0

RegisterUniverse(universe) ==
    /\ universes' = registerUniverse(universes, universe)
    /\ last' = Call("registerUniverse", "-", "-", TRUE, "returned", NoEvent, "-")
    /\ UNCHANGED <<learners, applied, transitionVars, sequencerVars>>

EnsureLearner(learnerId, mode) ==
    /\ learners' = ensureLearner(learners, learnerId, mode)
    /\ last' = Call("ensureLearner", "-", "-", TRUE, "returned", NoEvent, "-")
    /\ UNCHANGED <<universes, applied, transitionVars, sequencerVars>>

SetMode(learnerId, mode) ==
    /\ learners' = setMode(learners, learnerId, mode)
    /\ last' = Call("setMode", learnerId, "-", TRUE, "returned", NoEvent, "-")
    /\ UNCHANGED <<universes, applied, transitionVars, sequencerVars>>

ApplyAssessmentEvent(event) ==
    /\ TotalEvents < MaxEvents
    /\ \E result \in {applyAssessmentEvent(universes, learners, event)} :
           /\ learners' = result.learners
           /\ last' = Call("applyAssessmentEvent", event.learnerId, event.universeId,
                           event.signal.channel = event.expectedNextChannel,
                           result.outcome,
                           IF result.outcome = "applied" THEN event ELSE NoEvent,
                           "-")
           /\ applied' = IF result.outcome = "applied"
                         THEN [applied EXCEPT ![event.learnerId] = @ + 1]
                         ELSE applied
    /\ UNCHANGED <<universes, transitionVars, sequencerVars>>

GetLearner(learnerId) ==
    /\ learners' = getLearner(learners, learnerId)
    /\ last' = Call("getLearner", "-", "-", TRUE, "returned", NoEvent, "-")
    /\ UNCHANGED <<universes, applied, transitionVars, sequencerVars>>

Snapshot ==
    /\ last' = Call("snapshot", "-", "-", TRUE, "returned", NoEvent,
                    snapshot(universes, learners))
    /\ UNCHANGED <<universes, learners, applied, transitionVars, sequencerVars>>

Next ==
    \/ \E universe \in Universes : RegisterUniverse(universe)
    \/ \E learnerId \in LearnerIds, mode \in Modes \cup {Undefined} :
          EnsureLearner(learnerId, mode)
    \/ \E learnerId \in LearnerIds, mode \in Modes : SetMode(learnerId, mode)
    \/ \E event \in AssessmentEvents : ApplyAssessmentEvent(event)
    \/ \E learnerId \in LearnerIds : GetLearner(learnerId)
    \/ Snapshot

Spec == Init /\ [][Next]_vars

---------------------------------------------------------------------------
(* The transition function alone, applied to a grid of signals *)

\* (value, reasoningQuality, transferEvidence): each of them in range, negative
\* and greater than 1
GridLevels ==
    {<<Half, Half, Half>>,
     <<<<2, 1>>, <<3, 2>>, <<3, 2>>>>,
     <<<<2, 1>>, <<-1, 2>>, Half>>,
     <<<<-1, 1>>, <<-1, 2>>, <<-1, 2>>>>}

\* gaps of 5 days (decay 0.85), 50/3 days (decay exactly 0.5) and 65/3 days
\* (decay floored at 0.5), and time regressions
GridObservedAt == {DayMs, 6 * DayMs, 6 * DayMs + 50 * (DayMs \div 3)}

GridTags == {Undefined} \cup Tags

GridSignals ==
    {SignalEnvelope("reading",
                    [observedAt |-> t, value |-> level[1], reasoningQuality |-> level[2],
                     transferEvidence |-> level[3], misconceptionTag |-> m]) :
        t \in GridObservedAt, level \in GridLevels, m \in GridTags}

Transition(signal) ==
    /\ tSteps < MaxSteps
    /\ tPrevious' = tNext
    /\ tSignal' = signal
    /\ tNext' = transitionSkillState(tNext, signal)
    /\ tSteps' = tSteps + 1
    /\ UNCHANGED <<engineVars, sequencerVars>>

NextTransition == \E signal \in GridSignals : Transition(signal)

SpecTransition == Init /\ [][NextTransition]_vars

---------------------------------------------------------------------------
(* The channel sequencer alone: a caller asks for the channel after the one
   it was given last, starting from any value it may hold *)

InitSequencer ==
    /\ universes = [id \in {} |-> 0]
    /\ learners = [id \in {} |-> 0]
    /\ last = Call("new", "-", "-", TRUE, "returned", NoEvent, "-")
    /\ applied = [l \in LearnerIds |-> 0]
    /\ tPrevious = emptySkillState("s1")
    /\ tSignal = NoSignal
    /\ tNext = emptySkillState("s1")
    /\ tSteps = 0
    /\ cStart \in PreviousChannels
    /\ cChannel = cStart
    /\ cSteps = 0

SelectNextChannel ==
    /\ cSteps < MaxCalls
    /\ cChannel' = selectNextChannel(cChannel)
    /\ cSteps' = cSteps + 1
    /\ UNCHANGED <<cStart, engineVars, transitionVars>>

NextSequencer == SelectNextChannel

SpecSequencer == InitSequencer /\ [][NextSequencer]_vars

---------------------------------------------------------------------------
(* Properties of the engine's calls *)

Failures == {"ChannelContractViolation", "UnregisteredUniverse"}

\* the channel after each channel in the reading, visual, kinesthetic, auditory cycle
Following ==
    [c \in Channels |->
        CASE c = "reading" -> "visual"
          [] c = "visual" -> "kinesthetic"
          [] c = "kinesthetic" -> "auditory"
          [] c = "auditory" -> "reading"]

TimelineOf(ls, l) == IF l \in DOMAIN ls THEN ls[l].timeline ELSE <<>>

\* C1: a failing applyAssessmentEvent (channel-contract violation or unregistered
\* universe) leaves the whole engine state as it was: the same universes, the
\* same learner ids and the same profiles, also for a learner id never seen before.
C1_FailureLeavesStateUnchanged ==
    [][(last'.op = "applyAssessmentEvent" /\ last'.outcome \in Failures)
          => (universes' = universes /\ learners' = learners)]_vars

\* C2: an event applied to a learner whose mode is sandbox returns normally,
\* whatever its channels and its universe, and leaves that learner's skillStates
\* and timeline as they were.
C2_SandboxPurity ==
    [][\A l \in LearnerIds :
          (/\ last'.op = "applyAssessmentEvent"
           /\ last'.learnerId = l
           /\ l \in DOMAIN learners
           /\ learners[l].mode = "sandbox")
          => (/\ last'.outcome = "sandbox"
              /\ learners'[l].skillStates = learners[l].skillStates
              /\ learners'[l].timeline = learners[l].timeline)]_vars

\* a sandbox learner with a history was sent an event with mismatching channels
\* and an unregistered universe, and the call returned
C2_Witness ==
    /\ last.op = "applyAssessmentEvent"
    /\ last.outcome = "sandbox"
    /\ ~last.channelMatch
    /\ last.universeId \notin DOMAIN universes
    /\ Len(learners[last.learnerId].timeline) > 0

\* C3 as claimed: when two consecutive calls both apply an event of the same
\* learner, the second signal's channel is the one following the first signal's
\* channel in the cycle reading, visual, kinesthetic, auditory, reading, ...
C3_RotationEnforced ==
    [][(/\ last.outcome = "applied"
        /\ last'.outcome = "applied"
        /\ last'.learnerId = last.learnerId)
          => last'.event.signal.channel = Following[last.event.signal.channel]]_vars

\* C3 as amended: every applied event has signal.channel equal to the
\* expectedNextChannel declared in that same event; the second of two events
\* applied in a row for one learner follows the first in the cycle when its
\* expectedNextChannel was obtained from selectNextChannel of the first's channel.
C3_AppliedChannelIsDeclared ==
    [][last'.outcome = "applied"
          => (/\ last'.event.signal.channel = last'.event.expectedNextChannel
              /\ (/\ last.outcome = "applied"
                  /\ last'.learnerId = last.learnerId
                  /\ last'.event.expectedNextChannel
                        = selectNextChannel(last.event.signal.channel))
                 => last'.event.signal.channel
                        = Following[last.event.signal.channel])]_vars

\* a second event was applied for the same learner
C3_Witness ==
    /\ last.outcome = "applied"
    /\ applied[last.learnerId] = 2

\* C4: a learner's timeline only ever grows by one entry at its end, on an
\* applied event of that learner and on nothing else; it has as many entries as
\* events were applied for the learner, and the new entry holds the event's
\* skillId, its signal's observedAt and the masteryScore just stored.
C4_TimelineAppendOnly ==
    [][/\ DOMAIN learners \subseteq DOMAIN learners'
       /\ \A l \in DOMAIN learners' :
             /\ Len(learners'[l].timeline) = applied'[l]
             /\ IF last'.outcome = "applied" /\ last'.learnerId = l
                THEN learners'[l].timeline =
                        Append(TimelineOf(learners, l),
                               [skillId |-> last'.event.skillId,
                                timestamp |-> last'.event.signal.observedAt,
                                masteryScore |->
                                    learners'[l].skillStates[last'.event.skillId].masteryScore])
                ELSE learners'[l].timeline = TimelineOf(learners, l)]_vars

\* a learner's second event was applied and its entry differs from the first
C4_Witness ==
    /\ last.outcome = "applied"
    /\ Len(learners[last.learnerId].timeline) = 2
    /\ learners[last.learnerId].timeline[1] # learners[last.learnerId].timeline[2]

---------------------------------------------------------------------------
(* Properties of the channel sequencer *)

\* 0-based place of a channel in the cycle; -1 for no channel or an unknown one
C6_Place(c) ==
    CASE c = "reading" -> 0
      [] c = "visual" -> 1
      [] c = "kinesthetic" -> 2
      [] c = "auditory" -> 3
      [] OTHER -> -1

C6_Cycle == <<"reading", "visual", "kinesthetic", "auditory">>

\* C6: selectNextChannel of no channel, of auditory and of a value outside the
\* four channels is reading; of another channel it is the channel following it;
\* so calling it k times, each time on the channel returned before, starting
\* from no channel, gives the k-th element of reading, visual, kinesthetic,
\* auditory, reading, ...; the engine state is not touched.
C6_ChannelCycle ==
    /\ universes = [id \in {} |-> 0]
    /\ learners = [id \in {} |-> 0]
    /\ cSteps > 0 => cChannel = C6_Cycle[((C6_Place(cStart) + cSteps) % 4) + 1]

\* starting from no channel, the fifth call wrapped around to reading
C6_Witness ==
    /\ cStart = Undefined
    /\ cSteps = 5
    /\ cChannel = "reading"

---------------------------------------------------------------------------
(* Properties of the transition function *)

\* C7: every SkillState the transition returns (the only states the engine
\* stores) has stability, transfer, momentum, reasoningQuality, recencyWeight,
\* fragility and masteryScore in [0, 1], for signal values in range, negative
\* and greater than 1 and for several distinct misconception tags.
C7_Clamped ==
    tSteps > 0 =>
        /\ InUnit(tNext.stability)
        /\ InUnit(tNext.transfer)
        /\ InUnit(tNext.momentum)
        /\ InUnit(tNext.reasoningQuality)
        /\ InUnit(tNext.recencyWeight)
        /\ InUnit(tNext.fragility)
        /\ InUnit(tNext.masteryScore)

\* the default state of a skill, as the claim gives it
C8_Default(skillId) ==
    [skillId |-> skillId, stability |-> <<0, 1>>, transfer |-> <<0, 1>>,
     momentum |-> <<0, 1>>, reasoningQuality |-> <<0, 1>>,
     recencyWeight |-> <<0, 1>>, fragility |-> <<1, 1>>,
     misconceptionCounts |-> [t \in {} |-> 0], lastUpdatedAt |-> 0,
     masteryScore |-> <<0, 1>>]

C8_HasState(ls, l, skillId) ==
    l \in DOMAIN ls /\ skillId \in DOMAIN ls[l].skillStates

\* C8: the first applied event of a (learner, skill) pair with no stored state
\* stores the transition of the default state (all 0, fragility 1, lastUpdatedAt
\* 0, no counts) by the event's signal: with decay 1 whatever observedAt is, so
\* each blended value is the clamped share of the new evidence alone, and with
\* lastUpdatedAt equal to signal.observedAt.
C8_LazyDefault ==
    [][(/\ last'.outcome = "applied"
        /\ ~C8_HasState(learners, last'.learnerId, last'.event.skillId))
          => LET sig == last'.event.signal
                 stored == learners'[last'.learnerId].skillStates[last'.event.skillId]
             IN  /\ stored = transitionSkillState(C8_Default(last'.event.skillId), sig)
                 /\ Decay(C8_Default(last'.event.skillId), sig) = One
                 /\ stored.lastUpdatedAt = sig.observedAt
                 /\ stored.skillId = last'.event.skillId
                 /\ stored.recencyWeight = <<3, 10>>
                 /\ stored.stability = clamp01(Mul(<<7, 20>>, sig.value))
                 /\ stored.transfer = clamp01(Mul(<<3, 10>>, sig.transferEvidence))
                 /\ stored.reasoningQuality = clamp01(Mul(<<2, 5>>, sig.reasoningQuality))
                 /\ stored.momentum = clamp01(Mul(<<1, 8>>, Add(sig.value, One)))
                 /\ DOMAIN stored.misconceptionCounts = {sig.misconceptionTag} \ {Undefined}
                 /\ \A t \in DOMAIN stored.misconceptionCounts :
                       stored.misconceptionCounts[t] = 1]_vars

\* clamp(1 - elapsedDays * 0.03, 0.5, 1) with elapsedDays = max(0, (observedAt -
\* lastUpdatedAt) / 86400000), written out
C9_Formula(lastUpdatedAt, observedAt) ==
    LET gap == observedAt - lastUpdatedAt
        elapsedDays == IF gap > 0 THEN Num(gap, 86400000) ELSE <<0, 1>>
        raw == Sub(<<1, 1>>, Mul(elapsedDays, <<3, 100>>))
    IN  IF Le(raw, <<1, 2>>) THEN <<1, 2>>
        ELSE IF Le(<<1, 1>>, raw) THEN <<1, 1>>
        ELSE raw

\* C9 as stated: for every previous lastUpdatedAt and every observedAt the decay
\* used by the transition is clamp(1 - elapsedDays * 0.03, 0.5, 1) with
\* elapsedDays = max(0, (observedAt - lastUpdatedAt) / 86400000), so it is 0.5
\* for every gap of 50/3 days or more.
C9_FormulaForEveryLastUpdatedAt ==
    tSteps > 0 =>
        /\ Decay(tPrevious, tSignal) =
              C9_Formula(tPrevious.lastUpdatedAt, tSignal.observedAt)
        /\ tSignal.observedAt - tPrevious.lastUpdatedAt >= 1440000000
              => Decay(tPrevious, tSignal) = <<1, 2>>

\* C9: the decay used by the transition is in [0.5, 1]; for a lastUpdatedAt
\* other than 0 it is clamp(1 - elapsedDays * 0.03, 0.5, 1) with elapsedDays =
\* max(0, (observedAt - lastUpdatedAt) / 86400000), hence 0.5 from a gap of 50/3
\* days (1440000000 ms) on and 1 when observedAt is not later than lastUpdatedAt;
\* for lastUpdatedAt = 0 it is 1 whatever observedAt is. The returned
\* recencyWeight is the one that decay gives.
C9_DecayBounds ==
    tSteps > 0 =>
        LET d == Decay(tPrevious, tSignal)
            gap == tSignal.observedAt - tPrevious.lastUpdatedAt
        IN  /\ Le(<<1, 2>>, d) /\ Le(d, <<1, 1>>)
            /\ tPrevious.lastUpdatedAt # 0
                  => d = C9_Formula(tPrevious.lastUpdatedAt, tSignal.observedAt)
            /\ (tPrevious.lastUpdatedAt # 0 /\ gap >= 1440000000) => d = <<1, 2>>
            /\ (tPrevious.lastUpdatedAt # 0 /\ gap <= 0) => d = <<1, 1>>
            /\ tPrevious.lastUpdatedAt = 0 => d = <<1, 1>>
            /\ tNext.recencyWeight =
                  clamp01(Add(Mul(Mul(<<7, 10>>, tPrevious.recencyWeight), d), <<3, 10>>))

\* a signal came 65/3 days after the previous one and the decay was floored
C9_Witness ==
    /\ tSteps = 2
    /\ tPrevious.lastUpdatedAt = DayMs
    /\ tSignal.observedAt - tPrevious.lastUpdatedAt > 1440000000
    /\ Decay(tPrevious, tSignal) = Half

\* min(0.25, count * 0.03) of a tag; a count that is not a number gives NaN
C10_TagPressure(counts, tag) ==
    IF tag \notin DOMAIN counts THEN <<0, 1>>
    ELSE IF counts[tag] < 0 THEN <<0, 0>>
    ELSE MathMin(<<1, 4>>, Mul(<<counts[tag], 1>>, <<3, 100>>))

\* C10: the returned fragility is clamp(clamp(1 - (0.5*stability' +
\* 0.2*transfer' + 0.3*reasoningQuality')) + 0.2 * misconceptionPressure), with
\* misconceptionPressure the sum over the tags counted (the signal's tag
\* included) of min(0.25, count * 0.03), and the returned masteryScore is
\* clamp(0.28*stability' + 0.22*transfer' + 0.18*momentum' +
\* 0.2*reasoningQuality' + 0.12*recencyWeight' - 0.18 * returned fragility).
C10_Formulas ==
    tSteps > 0 =>
        LET counts == tNext.misconceptionCounts
            pressure == Add(Add(C10_TagPressure(counts, "t1"),
                                C10_TagPressure(counts, "t2")),
                            C10_TagPressure(counts, "constructor"))
            weighted == Add(Add(Mul(<<1, 2>>, tNext.stability),
                                Mul(<<1, 5>>, tNext.transfer)),
                            Mul(<<3, 10>>, tNext.reasoningQuality))
            fragility == clamp01(Sub(<<1, 1>>, weighted))
            positive == Add(Add(Add(Add(Mul(<<28, 100>>, tNext.stability),
                                        Mul(<<22, 100>>, tNext.transfer)),
                                    Mul(<<18, 100>>, tNext.momentum)),
                                Mul(<<20, 100>>, tNext.reasoningQuality)),
                            Mul(<<12, 100>>, tNext.recencyWeight))
        IN  /\ DOMAIN counts \subseteq {"t1", "t2", "constructor"}
            /\ tNext.fragility = clamp01(Add(fragility, Mul(<<1, 5>>, pressure)))
            /\ tNext.masteryScore =
                  clamp01(Sub(positive, Mul(<<18, 100>>, tNext.fragility)))

\* both tags are counted and neither the fragility nor the mastery score is
\* saturated
C10_Witness ==
    /\ tSteps = 2
    /\ DOMAIN tNext.misconceptionCounts = {"t1", "t2"}
    /\ Lt(Zero, tNext.fragility) /\ Lt(tNext.fragility, One)
    /\ Lt(Zero, tNext.masteryScore) /\ Lt(tNext.masteryScore, One)

---------------------------------------------------------------------------
(* Properties of the engine's other operations *)

C12_SnapshotEqualsState ==
    [][last'.op = "snapshot"
          => (/\ last'.ret = [universes |-> universes, learners |-> learners]
              /\ universes' = universes
              /\ learners' = learners)]_vars

\* what the claim says setMode(l, m) makes of the learners ls
C13_Effect(ls, l, m) ==
    [id \in DOMAIN ls \cup {l} |->
        IF id # l THEN ls[id]
        ELSE [learnerId |-> l,
              mode |-> m,
              skillStates |-> IF l \in DOMAIN ls THEN ls[l].skillStates
                              ELSE [s \in {} |-> 0],
              timeline |-> IF l \in DOMAIN ls THEN ls[l].timeline ELSE <<>>]]

---------------------------------------------------------------------------
(* Properties of the misconception counts *)

C14_Count(counts, tag) == IF tag \in DOMAIN counts THEN counts[tag] ELSE 0

\* C14: for every tag, the count stored after a transition is the count stored
\* before it, plus 1 when the signal carried that tag (the first occurrence
\* gives the count 1) and unchanged otherwise; so a count never decreases and
\* is the number of applied signals that carried the tag.
C14_CountsTrackEvents ==
    tSteps > 0 =>
        \A tag \in Tags :
            C14_Count(tNext.misconceptionCounts, tag) =
                C14_Count(tPrevious.misconceptionCounts, tag)
                    + (IF tSignal.misconceptionTag = tag THEN 1 ELSE 0)

---------------------------------------------------------------------------
(* Direction of the recency weight *)

\* C16 as stated: for every previous state and every signal, the recencyWeight
\* after the transition is greater than or equal to the recencyWeight before it.
C16_RecencyNeverFalls ==
    tSteps > 0 => Le(tPrevious.recencyWeight, tNext.recencyWeight)

\* C16: the recencyWeight after a transition is at least 0.3, and it is greater
\* than or equal to the recencyWeight before exactly when
\* previous.recencyWeight * (1 - 0.7 * decay) <= 0.3: always when the decay is 1
\* and always when the previous recencyWeight is at most 6/13, whereas with the
\* decay at 0.5 and a previous recencyWeight above 6/13 it falls.
C16_RecencyRisesUnlessDecayed ==
    tSteps > 0 =>
        LET r == tPrevious.recencyWeight
            d == Decay(tPrevious, tSignal)
        IN  /\ Le(<<3, 10>>, tNext.recencyWeight)
            /\ Le(r, tNext.recencyWeight)
                  <=> Le(Mul(r, Sub(One, Mul(<<7, 10>>, d))), <<3, 10>>)
            /\ (d = One \/ Le(r, <<6, 13>>)) => Le(r, tNext.recencyWeight)
            /\ (d = Half /\ Lt(<<6, 13>>, r)) => Lt(tNext.recencyWeight, r)

\* a signal came 65/3 days after two signals of one instant: the recencyWeight
\* was 0.51 and is 0.4785
C16_Witness ==
    /\ tSteps = 3
    /\ Decay(tPrevious, tSignal) = Half
    /\ tPrevious.recencyWeight = <<51, 100>>
    /\ tNext.recencyWeight = <<957, 2000>>

---------------------------------------------------------------------------
(* Monotonicity of the engine state *)

\* a step removes no universe id, no learner id and no skill of a learner, and
\* replaces a stored skill state only by the transition from it under the
\* signal of an applied event of that learner and skill
C17_StepKeeps ==
    /\ DOMAIN universes \subseteq DOMAIN universes'
    /\ DOMAIN learners \subseteq DOMAIN learners'
    /\ \A l \in DOMAIN learners :
          /\ DOMAIN learners[l].skillStates \subseteq DOMAIN learners'[l].skillStates
          /\ \A s \in DOMAIN learners[l].skillStates :
                \/ learners'[l].skillStates[s] = learners[l].skillStates[s]
                \/ /\ last'.outcome = "applied"
                   /\ last'.learnerId = l
                   /\ last'.event.skillId = s
                   /\ learners'[l].skillStates[s] =
                         transitionSkillState(learners[l].skillStates[s],
                                              last'.event.signal)

\* an event passes the universe check only for a registered id and fails it
\* only for an id that is not registered
C17_CheckFollowsRegistration ==
    /\ last'.outcome = "applied" => last'.universeId \in DOMAIN universes'
    /\ last'.outcome = "UnregisteredUniverse" => last'.universeId \notin DOMAIN universes

\* C17: nothing is ever removed: in every step of every sequence of operations
\* the sets of registered universe ids, of learner ids and of each learner's
\* skills with a stored state only grow, and a stored skill state is only
\* replaced by the result of a transition from it; an event passes the universe
\* check only for a registered id and fails it only for an unregistered one, so
\* once an event for a universe id has passed the check, no later event for that
\* id fails as unregistered.
C17_NothingRemoved ==
    [][C17_StepKeeps /\ C17_CheckFollowsRegistration]_vars

\* both universes are registered, both learners exist, and the second applied
\* event of a learner replaced the skill state its first one had stored
C17_Witness ==
    /\ DOMAIN universes = {"u1", "u2"}
    /\ last.outcome = "applied"
    /\ applied[last.learnerId] = 2
    /\ Cardinality(DOMAIN learners[last.learnerId].skillStates) = 1
    /\ DOMAIN learners = LearnerIds

---------------------------------------------------------------------------
(* Agreement of the timeline with the skill states *)

\* the positions of a skill's entries in a timeline
C18_EntriesOf(timeline, skillId) ==
    {i \in 1..Len(timeline) : timeline[i].skillId = skillId}

\* the timeline has an entry for the skill, and the last such entry carries
\* the lastUpdatedAt and the masteryScore of the state, whose skillId is the key
C18_Agree(timeline, skillId, state) ==
    /\ C18_EntriesOf(timeline, skillId) # {}
    /\ \E i \in C18_EntriesOf(timeline, skillId) :
          /\ \A j \in C18_EntriesOf(timeline, skillId) : j <= i
          /\ timeline[i].timestamp = state.lastUpdatedAt
          /\ timeline[i].masteryScore = state.masteryScore
    /\ state.skillId = skillId

\* C18: in every reachable state, a learner has a stored SkillState for a skill
\* exactly when the learner's timeline has an entry for that skill; the last
\* timeline entry for the skill has the stored lastUpdatedAt as timestamp and
\* the stored masteryScore; the stored state's skillId is the key it is stored
\* under.
C18_TimelineAgreesWithSkillStates ==
    \A l \in DOMAIN learners :
        \A s \in SkillIds :
            IF s \in DOMAIN learners[l].skillStates
            THEN C18_Agree(learners[l].timeline, s, learners[l].skillStates[s])
            ELSE C18_EntriesOf(learners[l].timeline, s) = {}

---------------------------------------------------------------------------
(* Frame of an applied event *)

\* the skill ids of the nodes of a universe's skill graph
C19_GraphSkills(universe) ==
    {universe.skillGraph.nodes[i].id : i \in 1..Len(universe.skillGraph.nodes)}

\* the skill states a learner had before a call, none for an unknown learner
C19_SkillStatesOf(ls, l) == IF l \in DOMAIN ls THEN ls[l].skillStates ELSE NoSkillStates

\* C19: an applied event for (learnerId, skillId) changes only that learner's
\* SkillState for that skill and appends one entry to that learner's timeline:
\* the learner's mode, the learner's states of every other skill, every other
\* learner's profile and the universes are as before. An event of a learner not
\* in sandbox mode on the expected channel for a registered universe is applied
\* whatever its skill is, in the universe's skill graph or not.
C19_FrameOfAppliedEvent ==
    [][/\ last'.outcome = "applied" =>
            LET l == last'.learnerId
                s == last'.event.skillId
                before == C19_SkillStatesOf(learners, l)
            IN  /\ universes' = universes
                /\ DOMAIN learners' = DOMAIN learners \cup {l}
                /\ \A m \in DOMAIN learners \ {l} : learners'[m] = learners[m]
                /\ learners'[l].learnerId = l
                /\ learners'[l].mode =
                      (IF l \in DOMAIN learners THEN learners[l].mode ELSE "assessment")
                /\ DOMAIN learners'[l].skillStates = DOMAIN before \cup {s}
                /\ \A t \in DOMAIN before \ {s} :
                      learners'[l].skillStates[t] = before[t]
                /\ Len(learners'[l].timeline) = Len(TimelineOf(learners, l)) + 1
                /\ SubSeq(learners'[l].timeline, 1, Len(TimelineOf(learners, l))) =
                      TimelineOf(learners, l)
                /\ learners'[l].timeline[Len(learners'[l].timeline)].skillId = s
       /\ (/\ last'.op = "applyAssessmentEvent"
           /\ last'.channelMatch
           /\ last'.universeId \in DOMAIN universes
           /\ learners'[last'.learnerId].mode # "sandbox")
             => last'.outcome = "applied"]_vars

\* with two universes registered and another learner present, an event for a
\* skill that is not in the universe's skill graph was applied to a learner
\* who holds a state of another skill
C19_Witness ==
    /\ last.outcome = "applied"
    /\ DOMAIN universes = {"u1", "u2"}
    /\ last.event.skillId \notin C19_GraphSkills(universes[last.universeId])
    /\ Cardinality(DOMAIN learners[last.learnerId].skillStates) = 2
    /\ DOMAIN learners = LearnerIds

====
